---------------------------- MODULE Spec2Model ----------------------------
(***************************************************************************)
(* Model of the triage-companion backend (src/app.py): the response        *)
(* parser parse_gemini_response, the session store session_data and the    *)
(* two endpoints that change it, /start (start_session and                 *)
(* start_new_triage_session) and /triage (triage_turn), run by the         *)
(* threads of the Flask server.                                            *)
(*                                                                         *)
(* Text is a sequence of tokens.  "t" is a narrative character, "_" a      *)
(* whitespace character, "<S>" and "</S>" the literals <SCORING_DATA> and  *)
(* </SCORING_DATA>, "{" "}" "," the JSON punctuation, a member token such  *)
(* as "su=40" the JSON member "score_update": 40, and "junk" any text that *)
(* is not JSON.                                                            *)
(***************************************************************************)
EXTENDS Integers, Sequences, FiniteSets, TLC

VARIABLES
    session_data,   \* the global dict: session id -> session record
    chats,          \* the client's conversations: handle -> send_message calls so far
    pc,             \* per server thread: where its request handler stands
    loc,            \* per server thread: the handler's local variables
    response,       \* the response on its way to the caller, NoResponse when none is
    requests,       \* how many requests reached the conversation client so far
    score_at_start, \* history: per thread, the session's score when its /triage turn began
    overlapped,     \* history: per thread, another /triage ran on the same session meanwhile
    raw_text,       \* parser harness: the raw reply under construction
    parsed          \* parser harness: <<>> or <<result of parse_gemini_response>>

vars == <<session_data, chats, pc, loc, response, requests, score_at_start,
          overlapped, raw_text, parsed>>

-----------------------------------------------------------------------------
(* Bounds of the model *)

\* tokens the parser harness appends to a seed
MaxTail == 4

\* requests that reach the conversation client
MaxRequests == 4

\* threads of the server
NumThreads == 2

-----------------------------------------------------------------------------
(* JSON and Python values *)

JInt(n) == [tag |-> "int", v |-> n]

\* a JSON string such as "20": v numbers the string literal
JStr(n) == [tag |-> "str", v |-> n]

JNull == [tag |-> "null", v |-> 0]

IsInt(x) == x.tag = "int"

\* Python's None, as the value of gemini_response.text
None == <<"None">>

-----------------------------------------------------------------------------
(* Tokens *)

StartMarker == "<S>"

EndMarker == "</S>"

MemberTokens == {"su=40", "su=-20", "su=30", "su=str", "su=null", "st=x"}

Tokens == {"t", "_", StartMarker, EndMarker, "{", "}", ",", "junk"} \cup MemberTokens

MemberKey(tok) == IF tok = "st=x" THEN "hot_clue_status" ELSE "score_update"

MemberValue(tok) ==
    CASE tok = "su=40"   -> JInt(40)
      [] tok = "su=-20"  -> JInt(-20)
      [] tok = "su=30"   -> JInt(30)
      [] tok = "su=str"  -> JStr(20)
      [] tok = "su=null" -> JNull
      [] tok = "st=x"    -> "Found key symptom: Sudden onset."

-----------------------------------------------------------------------------
(* parse_gemini_response *)

SetMin(S) == CHOOSE x \in S : \A y \in S : x <= y

SetMax(S) == CHOOSE x \in S : \A y \in S : x >= y

\* \s* : index of the first token at or after i that is not whitespace (Len+1 if none)
SkipWs(s, i) == SetMin({k \in i..Len(s) : s[k] # "_"} \cup {Len(s) + 1})

\* ends k of the group ({.*?}) for a match that starts with the marker at i
GroupEnds(s, i) ==
    LET j == SkipWs(s, i + 1)
    IN  IF j > Len(s) \/ s[j] # "{" THEN {}
        ELSE {k \in (j + 1)..Len(s) :
                /\ s[k] = "}"
                /\ SkipWs(s, k + 1) <= Len(s)
                /\ s[SkipWs(s, k + 1)] = EndMarker}

\* a search for the JSON object alone, the markers left out of the pattern:
\* <<>> or <<the text from the first brace to the first closing brace after it>>
re_search_without_markers(s) ==
    LET opens == {i \in 1..Len(s) : s[i] = "{" /\ \E k \in (i + 1)..Len(s) : s[k] = "}"}
    IN  IF opens = {} THEN <<>>
        ELSE LET i == SetMin(opens)
             IN  <<SubSeq(s, i, SetMin({k \in (i + 1)..Len(s) : s[k] = "}"}))>>

\* re.search(r'<SCORING_DATA>\s*({.*?})\s*</SCORING_DATA>', raw_text, re.DOTALL):
\* <<>> when nothing matches, else <<group(1)>> of the leftmost match, non-greedy
re_search(s) ==
    LET starts == {i \in 1..Len(s) : s[i] = StartMarker /\ GroupEnds(s, i) # {}}
    IN  IF starts = {} THEN <<>>
        ELSE LET i == SetMin(starts)
                 j == SkipWs(s, i + 1)
             IN  <<SubSeq(s, j, SetMin(GroupEnds(s, i)))>>

\* str.strip()
strip(s) ==
    LET solid == {k \in 1..Len(s) : s[k] # "_"}
    IN  IF solid = {} THEN <<>> ELSE SubSeq(s, SetMin(solid), SetMax(solid))

\* raw_text.split('<SCORING_DATA>')[0]
split_first(s) ==
    LET marks == {k \in 1..Len(s) : s[k] = StartMarker}
    IN  IF marks = {} THEN s ELSE SubSeq(s, 1, SetMin(marks) - 1)

\* the tokens of s that are not whitespace (JSON allows whitespace between tokens)
RECURSIVE Solid(_)
Solid(s) ==
    IF s = <<>> THEN <<>>
    ELSE IF Head(s) = "_" THEN Solid(Tail(s)) ELSE <<Head(s)>> \o Solid(Tail(s))

\* whether json.loads accepts the group: { member , member ... } or {}
JsonValid(g) ==
    LET b == Solid(SubSeq(g, 2, Len(g) - 1))
    IN  \/ b = <<>>
        \/ /\ Len(b) % 2 = 1
           /\ \A i \in 1..Len(b) :
                IF i % 2 = 1 THEN b[i] \in MemberTokens ELSE b[i] = ","

\* json.loads of a valid group: the dict, a repeated key keeping its last value
json_loads(g) ==
    LET b == Solid(SubSeq(g, 2, Len(g) - 1))
        members == {i \in 1..Len(b) : b[i] \in MemberTokens}
        keys == {MemberKey(b[i]) : i \in members}
    IN  [k \in keys |->
            MemberValue(b[SetMax({i \in members : MemberKey(b[i]) = k})])]

\* a get that never finds the key
get_never_finds(d, key, default) == default

\* dict.get(key, default)
get(d, key, default) == IF key \in DOMAIN d THEN d[key] ELSE default

parse_gemini_response(raw, current_score) ==
    LET score_match == re_search(raw)
        patient_message == strip(split_first(raw))
    IN  IF score_match # <<>>
        THEN IF JsonValid(score_match[1])
             THEN LET scoring_data == json_loads(score_match[1])
                  IN  [patient_message |-> patient_message,
                       new_score |-> get(scoring_data, "score_update", current_score),
                       clue_status |-> get(scoring_data, "hot_clue_status",
                                           "Feedback received.")]
             ELSE [patient_message |-> patient_message,
                   new_score |-> current_score,
                   clue_status |-> "Error processing AI feedback (JSON format broken)."]
        ELSE [patient_message |-> patient_message,
              new_score |-> current_score,
              clue_status |-> "Awaiting key finding..."]

-----------------------------------------------------------------------------
(* The case catalog and the conversation client *)

PATIENT_CASES ==
    [c \in {"case_pregnant_abdominal_pain", "case_leg_erythema_pain",
            "case_adolescent_back_pain"} |->
        CASE c = "case_pregnant_abdominal_pain" ->
                [name |-> "Angie Smith", age |-> 26, sex |-> "Female", esi_level |-> 2,
                 initial_line |-> "I've had lower belly pain for three days"]
          [] c = "case_leg_erythema_pain" ->
                [name |-> "Tyler James", age |-> 62, sex |-> "Male", esi_level |-> 2,
                 initial_line |-> "My right leg started hurting two days ago"]
          [] c = "case_adolescent_back_pain" ->
                [name |-> "Alex Paul", age |-> 12, sex |-> "Male", esi_level |-> 3,
                 initial_line |-> "Sometimes my upper back hurts and feels stiff"]]

\* case_id values a /start request may carry: two of the catalog's, an unknown
\* one, and "" for a missing or empty one
CaseInputs ==
    {"case_pregnant_abdominal_pain", "case_adolescent_back_pain", "case_unknown", ""}

\* what a send_message call may come back with: an exception, a response whose
\* .text is None, or a response with text
Raised == <<"raised">>

Payload(members) == <<"t", "_", StartMarker, "_", "{">> \o members \o <<"}", "_", EndMarker>>

Replies ==
    { Payload(<<"su=40", ",", "st=x">>),
      Payload(<<"st=x">>),
      Payload(<<"su=str", ",", "st=x">>),
      Payload(<<"junk">>),
      <<"t", "_", "t">> }

SendOutcomes == Replies \cup {None, Raised}

\* the reply to the instruction turn is dropped: fewer of them are told apart
InstructionOutcomes == {Raised, None, Payload(<<"su=40", ",", "st=x">>)}

\* the threads of the server
Threads == DOMAIN pc

\* a missing session_id
NoSessionId == 0

-----------------------------------------------------------------------------
(* Responses *)

NoResponse == [of |-> "none", request |-> "", code |-> 0]

\* request is the case_id of a /start request, the session_id of a /triage one
ErrorResponse(op, request, code, error) ==
    [of |-> op, request |-> request, code |-> code, error |-> error]

CaseNotFound == "Case ID not found."

NoCaseId == "No case ID provided"

ServerErrorStarting == "Server error starting session"

InvalidSession == "Invalid or expired session ID"

TurnFailed == "An internal error occurred during the conversation turn."

-----------------------------------------------------------------------------
(* Handler state *)

IdleLoc ==
    [op |-> "none", case_id |-> "", session_id |-> NoSessionId, chat |-> 0,
     gemini |-> None, patient_message |-> <<>>, new_score |-> JInt(0),
     clue_status |-> ""]

\* the pcs of a /start between client.chats.create and the return
StartPcs == {"s_send", "s_register"}

\* str(uuid.uuid4()): an identifier no session has
uuid4 == Cardinality(DOMAIN session_data) + 1

\* session_id values a /triage request may carry: the issued ones, a missing one
\* and one that no /start has returned
SessionInputs == DOMAIN session_data \cup {NoSessionId, uuid4}

\* client.chats.create: a new conversation handle
new_chat == Cardinality(DOMAIN chats) + 1

Extend(f, k, v) == [x \in DOMAIN f \cup {k} |-> IF x = k THEN v ELSE f[x]]

\* the server after module load, with n threads: session_data = {}
InitWith(n) ==
    /\ session_data = <<>>
    /\ chats = <<>>
    /\ pc = [t \in 1..n |-> "idle"]
    /\ loc = [t \in 1..n |-> IdleLoc]
    /\ response = NoResponse
    /\ requests = 0
    /\ score_at_start = [t \in 1..n |-> JInt(0)]
    /\ overlapped = [t \in 1..n |-> FALSE]
    /\ raw_text = <<>>
    /\ parsed = <<>>

Init == InitWith(NumThreads)

\* one thread more, for two /start and one /triage at the same time
InitThree == InitWith(NumThreads + 1)

-----------------------------------------------------------------------------
(* POST /start *)

\* a start_session that opens the conversation before it looks the case up
start_session_chat_first(t, case_id, created) ==
    /\ response = NoResponse
    /\ pc[t] = "idle"
    /\ IF case_id = ""
       THEN /\ response' = ErrorResponse("start", case_id, 400, NoCaseId)
            /\ UNCHANGED <<pc, loc, chats, requests>>
       ELSE IF ~created
       THEN /\ response' = ErrorResponse("start", case_id, 500, ServerErrorStarting)
            /\ UNCHANGED <<pc, loc, chats, requests>>
       ELSE /\ requests < MaxRequests
            /\ requests' = requests + 1
            /\ chats' = Extend(chats, new_chat, 0)
            /\ IF case_id \notin DOMAIN PATIENT_CASES
               THEN /\ response' = ErrorResponse("start", case_id, 404, CaseNotFound)
                    /\ UNCHANGED <<pc, loc>>
               ELSE /\ pc' = [pc EXCEPT ![t] = "s_send"]
                    /\ loc' = [loc EXCEPT ![t] = [IdleLoc EXCEPT !.op = "start",
                                                                 !.case_id = case_id,
                                                                 !.chat = new_chat]]
                    /\ UNCHANGED response
    /\ UNCHANGED <<session_data, score_at_start, overlapped, raw_text, parsed>>

\* start_session and start_new_triage_session up to client.chats.create, which
\* raises (created = FALSE) or returns a new conversation
start_session(t, case_id, created) ==
    /\ response = NoResponse
    /\ pc[t] = "idle"
    /\ IF case_id = ""
       THEN /\ response' = ErrorResponse("start", case_id, 400, NoCaseId)
            /\ UNCHANGED <<pc, loc, chats, requests>>
       ELSE IF case_id \notin DOMAIN PATIENT_CASES
       THEN /\ response' = ErrorResponse("start", case_id, 404, CaseNotFound)
            /\ UNCHANGED <<pc, loc, chats, requests>>
       ELSE IF ~created
       THEN /\ response' = ErrorResponse("start", case_id, 500, ServerErrorStarting)
            /\ UNCHANGED <<pc, loc, chats, requests>>
       ELSE /\ requests < MaxRequests
            /\ requests' = requests + 1
            /\ chats' = Extend(chats, new_chat, 0)
            /\ pc' = [pc EXCEPT ![t] = "s_send"]
            /\ loc' = [loc EXCEPT ![t] = [IdleLoc EXCEPT !.op = "start",
                                                         !.case_id = case_id,
                                                         !.chat = new_chat]]
            /\ UNCHANGED response
    /\ UNCHANGED <<session_data, score_at_start, overlapped, raw_text, parsed>>

\* a send_instruction that registers the session before the instruction turn
\* is known to have succeeded
send_instruction_registers_first(t, outcome) ==
    /\ response = NoResponse
    /\ pc[t] = "s_send"
    /\ chats' = [chats EXCEPT ![loc[t].chat] = @ + 1]
    /\ IF outcome = Raised
       THEN /\ response' = ErrorResponse("start", loc[t].case_id, 500, ServerErrorStarting)
            /\ pc' = [pc EXCEPT ![t] = "idle"]
            /\ loc' = [loc EXCEPT ![t] = IdleLoc]
            /\ session_data' = Extend(session_data, Cardinality(DOMAIN session_data) + 1,
                                      [chat |-> loc[t].chat,
                                       case_id |-> loc[t].case_id,
                                       current_score |-> JInt(0),
                                       patient_name |-> PATIENT_CASES[loc[t].case_id].name,
                                       esi_goal |-> PATIENT_CASES[loc[t].case_id].esi_level,
                                       arrival_time |-> "now"])
       ELSE /\ pc' = [pc EXCEPT ![t] = "s_register"]
            /\ loc' = [loc EXCEPT ![t].gemini = outcome]
            /\ UNCHANGED <<response, session_data>>
    /\ UNCHANGED <<requests, score_at_start, overlapped, raw_text, parsed>>

\* chat.send_message(full_prompt), its reply dropped
send_instruction(t, outcome) ==
    /\ response = NoResponse
    /\ pc[t] = "s_send"
    /\ chats' = [chats EXCEPT ![loc[t].chat] = @ + 1]
    /\ IF outcome = Raised
       THEN /\ response' = ErrorResponse("start", loc[t].case_id, 500, ServerErrorStarting)
            /\ pc' = [pc EXCEPT ![t] = "idle"]
            /\ loc' = [loc EXCEPT ![t] = IdleLoc]
       ELSE /\ pc' = [pc EXCEPT ![t] = "s_register"]
            /\ loc' = [loc EXCEPT ![t].gemini = outcome]
            /\ UNCHANGED response
    /\ UNCHANGED <<session_data, requests, score_at_start, overlapped, raw_text, parsed>>

\* a session record whose score is parsed from the reply to the instruction
new_session_parsed_reply(t) ==
    [chat |-> loc[t].chat,
     case_id |-> loc[t].case_id,
     current_score |-> IF loc[t].gemini = None THEN JInt(0)
                       ELSE parse_gemini_response(loc[t].gemini, JInt(0)).new_score,
     patient_name |-> PATIENT_CASES[loc[t].case_id].name,
     esi_goal |-> PATIENT_CASES[loc[t].case_id].esi_level,
     arrival_time |-> "now"]

\* the session record start_new_triage_session stores; the wall clock is not
\* modelled, arrival_time is the one value "now"
new_session(t) ==
    [chat |-> loc[t].chat,
     case_id |-> loc[t].case_id,
     current_score |-> JInt(0),
     patient_name |-> PATIENT_CASES[loc[t].case_id].name,
     esi_goal |-> PATIENT_CASES[loc[t].case_id].esi_level,
     arrival_time |-> "now"]

\* the body of the 200 response of start_session
start_response(t, session_id) ==
    LET case_data == PATIENT_CASES[loc[t].case_id]
    IN  [of |-> "start", request |-> loc[t].case_id, code |-> 200,
         session_id |-> session_id,
         patient_text |-> case_data.initial_line,
         case_id |-> loc[t].case_id,
         patient_name |-> case_data.name,
         esi_goal |-> case_data.esi_level,
         initial_score |-> 0,
         age |-> case_data.age,
         sex |-> case_data.sex,
         arrival_time |-> "now"]

\* a register_session that writes back the store as it was when its /start
\* began, with the new session added: sessions of conversations opened later
\* are lost
register_session_stale_store(t) ==
    /\ response = NoResponse
    /\ pc[t] = "s_register"
    /\ LET session_id == uuid4
           kept == {s \in DOMAIN session_data : session_data[s].chat < loc[t].chat}
       IN  /\ session_data' = [s \in kept \cup {session_id} |->
                                  IF s = session_id THEN new_session(t)
                                  ELSE session_data[s]]
           /\ response' = start_response(t, session_id)
    /\ pc' = [pc EXCEPT ![t] = "idle"]
    /\ loc' = [loc EXCEPT ![t] = IdleLoc]
    /\ UNCHANGED <<chats, requests, score_at_start, overlapped, raw_text, parsed>>

\* session_id = str(uuid.uuid4()); session_data[session_id] = {...}; return
register_session(t) ==
    /\ response = NoResponse
    /\ pc[t] = "s_register"
    /\ LET session_id == uuid4
       IN  /\ session_data' = Extend(session_data, session_id, new_session(t))
           /\ response' = start_response(t, session_id)
    /\ pc' = [pc EXCEPT ![t] = "idle"]
    /\ loc' = [loc EXCEPT ![t] = IdleLoc]
    /\ UNCHANGED <<chats, requests, score_at_start, overlapped, raw_text, parsed>>

-----------------------------------------------------------------------------
(* POST /triage *)

\* the pcs of a turn between chat.send_message and the write of the score
TriagePcs == {"t_recv", "t_store"}

\* the other threads that are inside a /triage turn of session sid
TurnsOn(sid, t) ==
    {u \in Threads \ {t} : pc[u] \in TriagePcs /\ loc[u].session_id = sid}

\* a triage_turn that looks the session up inside the try block, so that an
\* unknown identifier lands in the except clause
triage_turn_lookup_in_try(t, session_id, outcome) ==
    /\ response = NoResponse
    /\ pc[t] = "idle"
    /\ IF session_id \notin DOMAIN session_data
       THEN /\ response' = ErrorResponse("triage", session_id, 500, TurnFailed)
            /\ UNCHANGED <<pc, loc, chats, requests, score_at_start, overlapped>>
       ELSE LET chat == session_data[session_id].chat
            IN  /\ requests < MaxRequests
                /\ requests' = requests + 1
                /\ chats' = [chats EXCEPT ![chat] = @ + 1]
                /\ pc' = [pc EXCEPT ![t] = "t_recv"]
                /\ loc' = [loc EXCEPT ![t] = [IdleLoc EXCEPT !.op = "triage",
                                                             !.session_id = session_id,
                                                             !.chat = chat,
                                                             !.gemini = outcome]]
                /\ UNCHANGED response
                /\ score_at_start' = [score_at_start EXCEPT
                                        ![t] = session_data[session_id].current_score]
                /\ overlapped' = [u \in Threads |->
                                    IF u = t THEN TurnsOn(session_id, t) # {}
                                    ELSE IF u \in TurnsOn(session_id, t) THEN TRUE
                                    ELSE overlapped[u]]
    /\ UNCHANGED <<session_data, raw_text, parsed>>

\* triage_turn up to gemini_response = chat.send_message(user_message), which
\* raises, or returns a response without text or with text
triage_turn(t, session_id, outcome) ==
    /\ response = NoResponse
    /\ pc[t] = "idle"
    /\ IF session_id \notin DOMAIN session_data
       THEN /\ response' = ErrorResponse("triage", session_id, 404, InvalidSession)
            /\ UNCHANGED <<pc, loc, chats, requests, score_at_start, overlapped>>
       ELSE LET chat == session_data[session_id].chat
            IN  /\ requests < MaxRequests
                /\ requests' = requests + 1
                /\ chats' = [chats EXCEPT ![chat] = @ + 1]
                /\ pc' = [pc EXCEPT ![t] = "t_recv"]
                /\ loc' = [loc EXCEPT ![t] = [IdleLoc EXCEPT !.op = "triage",
                                                             !.session_id = session_id,
                                                             !.chat = chat,
                                                             !.gemini = outcome]]
                /\ UNCHANGED response
                /\ score_at_start' = [score_at_start EXCEPT
                                        ![t] = session_data[session_id].current_score]
                /\ overlapped' = [u \in Threads |->
                                    IF u = t THEN TurnsOn(session_id, t) # {}
                                    ELSE IF u \in TurnsOn(session_id, t) THEN TRUE
                                    ELSE overlapped[u]]
    /\ UNCHANGED <<session_data, raw_text, parsed>>

\* a parse_reply that reads a response without text as the empty text
parse_reply_none_as_empty(t) ==
    /\ response = NoResponse
    /\ pc[t] = "t_recv"
    /\ IF loc[t].gemini = Raised
       THEN /\ response' = ErrorResponse("triage", loc[t].session_id, 500, TurnFailed)
            /\ pc' = [pc EXCEPT ![t] = "idle"]
            /\ loc' = [loc EXCEPT ![t] = IdleLoc]
            /\ score_at_start' = [score_at_start EXCEPT ![t] = JInt(0)]
            /\ overlapped' = [overlapped EXCEPT ![t] = FALSE]
       ELSE LET r == parse_gemini_response(IF loc[t].gemini = None THEN <<>> ELSE loc[t].gemini,
                                           session_data[loc[t].session_id].current_score)
            IN  /\ loc' = [loc EXCEPT ![t].patient_message = r.patient_message,
                                      ![t].new_score = r.new_score,
                                      ![t].clue_status = r.clue_status]
                /\ pc' = [pc EXCEPT ![t] = "t_store"]
                /\ UNCHANGED <<response, score_at_start, overlapped>>
    /\ UNCHANGED <<session_data, chats, requests, raw_text, parsed>>

\* a parse_reply that drops the session of a turn that fails
parse_reply_expires_session(t) ==
    /\ response = NoResponse
    /\ pc[t] = "t_recv"
    /\ IF loc[t].gemini \in {Raised, None}
       THEN /\ response' = ErrorResponse("triage", loc[t].session_id, 500, TurnFailed)
            /\ pc' = [pc EXCEPT ![t] = "idle"]
            /\ loc' = [loc EXCEPT ![t] = IdleLoc]
            /\ score_at_start' = [score_at_start EXCEPT ![t] = JInt(0)]
            /\ overlapped' = [overlapped EXCEPT ![t] = FALSE]
            /\ session_data' = [s \in DOMAIN session_data \ {loc[t].session_id} |->
                                  session_data[s]]
       ELSE LET r == parse_gemini_response(loc[t].gemini,
                                           session_data[loc[t].session_id].current_score)
            IN  /\ loc' = [loc EXCEPT ![t].patient_message = r.patient_message,
                                      ![t].new_score = r.new_score,
                                      ![t].clue_status = r.clue_status]
                /\ pc' = [pc EXCEPT ![t] = "t_store"]
                /\ UNCHANGED <<response, score_at_start, overlapped, session_data>>
    /\ UNCHANGED <<chats, requests, raw_text, parsed>>

\* a parse_reply in which a payload json.loads rejects lands in the except
\* clause of triage_turn
parse_reply_json_error_fails(t) ==
    /\ response = NoResponse
    /\ pc[t] = "t_recv"
    /\ IF \/ loc[t].gemini \in {Raised, None}
          \/ (re_search(loc[t].gemini) # <<>> /\ ~JsonValid(re_search(loc[t].gemini)[1]))
       THEN /\ response' = ErrorResponse("triage", loc[t].session_id, 500, TurnFailed)
            /\ pc' = [pc EXCEPT ![t] = "idle"]
            /\ loc' = [loc EXCEPT ![t] = IdleLoc]
            /\ score_at_start' = [score_at_start EXCEPT ![t] = JInt(0)]
            /\ overlapped' = [overlapped EXCEPT ![t] = FALSE]
       ELSE LET r == parse_gemini_response(loc[t].gemini,
                                           session_data[loc[t].session_id].current_score)
            IN  /\ loc' = [loc EXCEPT ![t].patient_message = r.patient_message,
                                      ![t].new_score = r.new_score,
                                      ![t].clue_status = r.clue_status]
                /\ pc' = [pc EXCEPT ![t] = "t_store"]
                /\ UNCHANGED <<response, score_at_start, overlapped>>
    /\ UNCHANGED <<session_data, chats, requests, raw_text, parsed>>

\* raw_text = gemini_response.text; parse_gemini_response(raw_text, session['current_score']);
\* an exception of send_message, or of re.search on None, lands in the except clause
parse_reply(t) ==
    /\ response = NoResponse
    /\ pc[t] = "t_recv"
    /\ IF loc[t].gemini \in {Raised, None}
       THEN /\ response' = ErrorResponse("triage", loc[t].session_id, 500, TurnFailed)
            /\ pc' = [pc EXCEPT ![t] = "idle"]
            /\ loc' = [loc EXCEPT ![t] = IdleLoc]
            /\ score_at_start' = [score_at_start EXCEPT ![t] = JInt(0)]
            /\ overlapped' = [overlapped EXCEPT ![t] = FALSE]
       ELSE LET r == parse_gemini_response(loc[t].gemini,
                                           session_data[loc[t].session_id].current_score)
            IN  /\ loc' = [loc EXCEPT ![t].patient_message = r.patient_message,
                                      ![t].new_score = r.new_score,
                                      ![t].clue_status = r.clue_status]
                /\ pc' = [pc EXCEPT ![t] = "t_store"]
                /\ UNCHANGED <<response, score_at_start, overlapped>>
    /\ UNCHANGED <<session_data, chats, requests, raw_text, parsed>>

\* a store_score that writes the score into every session of the store
store_score_everywhere(t) ==
    /\ response = NoResponse
    /\ pc[t] = "t_store"
    /\ session_data' = [s \in DOMAIN session_data |->
                            [session_data[s] EXCEPT !.current_score = loc[t].new_score]]
    /\ response' = [of |-> "triage", request |-> loc[t].session_id, code |-> 200,
                    patient_text |-> loc[t].patient_message,
                    current_score |-> loc[t].new_score,
                    real_time_feedback |-> loc[t].clue_status]
    /\ pc' = [pc EXCEPT ![t] = "idle"]
    /\ loc' = [loc EXCEPT ![t] = IdleLoc]
    /\ score_at_start' = [score_at_start EXCEPT ![t] = JInt(0)]
    /\ overlapped' = [overlapped EXCEPT ![t] = FALSE]
    /\ UNCHANGED <<chats, requests, raw_text, parsed>>

\* a store_score that stores the session again with the conversation of the
\* first session
store_score_rebinds_chat(t) ==
    /\ response = NoResponse
    /\ pc[t] = "t_store"
    /\ session_data' = [session_data EXCEPT
                            ![loc[t].session_id].current_score = loc[t].new_score,
                            ![loc[t].session_id].chat = session_data[1].chat]
    /\ response' = [of |-> "triage", request |-> loc[t].session_id, code |-> 200,
                    patient_text |-> loc[t].patient_message,
                    current_score |-> loc[t].new_score,
                    real_time_feedback |-> loc[t].clue_status]
    /\ pc' = [pc EXCEPT ![t] = "idle"]
    /\ loc' = [loc EXCEPT ![t] = IdleLoc]
    /\ score_at_start' = [score_at_start EXCEPT ![t] = JInt(0)]
    /\ overlapped' = [overlapped EXCEPT ![t] = FALSE]
    /\ UNCHANGED <<chats, requests, raw_text, parsed>>

\* session['current_score'] = new_score; return jsonify({...})
store_score(t) ==
    /\ response = NoResponse
    /\ pc[t] = "t_store"
    /\ session_data' = [session_data EXCEPT
                            ![loc[t].session_id].current_score = loc[t].new_score]
    /\ response' = [of |-> "triage", request |-> loc[t].session_id, code |-> 200,
                    patient_text |-> loc[t].patient_message,
                    current_score |-> loc[t].new_score,
                    real_time_feedback |-> loc[t].clue_status]
    /\ pc' = [pc EXCEPT ![t] = "idle"]
    /\ loc' = [loc EXCEPT ![t] = IdleLoc]
    /\ score_at_start' = [score_at_start EXCEPT ![t] = JInt(0)]
    /\ overlapped' = [overlapped EXCEPT ![t] = FALSE]
    /\ UNCHANGED <<chats, requests, raw_text, parsed>>

\* the response leaves the server; no handler is modelled to move meanwhile, a
\* response being no part of the state the handlers share
send_response ==
    /\ response # NoResponse
    /\ response' = NoResponse
    /\ UNCHANGED <<session_data, chats, pc, loc, requests, score_at_start, overlapped, raw_text, parsed>>

-----------------------------------------------------------------------------
(* The server: its threads take the steps of their handlers in any order *)

Next ==
    \/ \E t \in Threads, case_id \in CaseInputs, created \in BOOLEAN :
            start_session(t, case_id, created)
    \/ \E t \in Threads, outcome \in InstructionOutcomes : send_instruction(t, outcome)
    \/ \E t \in Threads : register_session(t)
    \/ \E t \in Threads, session_id \in SessionInputs, outcome \in SendOutcomes :
            triage_turn(t, session_id, outcome)
    \/ \E t \in Threads : parse_reply(t)
    \/ \E t \in Threads : store_score(t)
    \/ send_response

Spec == Init /\ [][Next]_vars

SpecThree == InitThree /\ [][Next]_vars

-----------------------------------------------------------------------------
(* The parser alone, on every reply of a bounded shape *)

HarnessTokens == {"t", "_", StartMarker, EndMarker, "{", "}", ",", "su=40", "st=x", "junk"}

HarnessSeeds ==
    { <<>>,
      <<"_", "t", "_">>,
      <<"t", "_", StartMarker, "_">>,
      <<"t", StartMarker, "{", "su=40", ",">> }

HarnessScores == {JInt(0), JInt(40)}

ParseInit ==
    /\ session_data = <<>>
    /\ chats = <<>>
    /\ pc = [t \in 1..NumThreads |-> "idle"]
    /\ loc = [t \in 1..NumThreads |-> IdleLoc]
    /\ response = NoResponse
    /\ requests = 0
    /\ score_at_start = [t \in 1..NumThreads |-> JInt(0)]
    /\ overlapped = [t \in 1..NumThreads |-> FALSE]
    /\ raw_text \in HarnessSeeds
    /\ parsed = <<>>

\* the reply grows by one token
AppendToken(tok) ==
    /\ parsed = <<>>
    /\ \E seed \in HarnessSeeds :
          /\ Len(raw_text) >= Len(seed)
          /\ Len(raw_text) < Len(seed) + MaxTail
          /\ SubSeq(raw_text, 1, Len(seed)) = seed
    /\ raw_text' = Append(raw_text, tok)
    /\ UNCHANGED <<session_data, chats, pc, loc, response, requests, score_at_start,
                   overlapped, parsed>>

\* parse_gemini_response(raw_text, current_score) is called
ParseCall(current_score) ==
    /\ parsed = <<>>
    /\ parsed' = << [current_score |-> current_score,
                     result |-> parse_gemini_response(raw_text, current_score)] >>
    /\ UNCHANGED <<session_data, chats, pc, loc, response, requests, score_at_start,
                   overlapped, raw_text>>

ParseNext ==
    \/ \E tok \in HarnessTokens : AppendToken(tok)
    \/ \E current_score \in HarnessScores : ParseCall(current_score)

ParseSpec == ParseInit /\ [][ParseNext]_vars

-----------------------------------------------------------------------------
(* What the claims speak about *)

\* the score_update member of the payload of a reply: <<>> when the reply has no
\* payload that decodes, or the payload has no such member, else <<its value>>
ScoreUpdateOf(raw) ==
    LET m == re_search(raw)
    IN  IF m # <<>> /\ JsonValid(m[1]) /\ "score_update" \in DOMAIN json_loads(m[1])
        THEN <<json_loads(m[1])["score_update"]>>
        ELSE <<>>

\* a step that answers a request to endpoint op
Answers(op) == response = NoResponse /\ response' # NoResponse /\ response'.of = op

\* thread t leaves position p in this step
Leaves(t, p) == pc[t] = p /\ pc'[t] # p

Stored(s) == session_data[s].current_score
StoredNext(s) == session_data'[s].current_score

-----------------------------------------------------------------------------
(* C1 *)

\* C1: a successful Advance that no other turn of the same session overlaps
\* stores the score the session had before the call plus the score_update of
\* the reply, and plus 0 when the reply carries no score_update; so the stored
\* score is the sum of the score_update values of the session's turns.
\* The code stores score_update itself: from 40, a reply with +40 leaves 40.
C1_AdvanceAddsDelta ==
    [][\A t \in Threads :
         LET su == ScoreUpdateOf(loc[t].gemini)
         IN  ( /\ Leaves(t, "t_store")
               /\ ~overlapped[t]
               /\ IsInt(score_at_start[t])
               /\ (su = <<>> \/ IsInt(su[1])) )
             => StoredNext(loc[t].session_id) =
                    JInt(score_at_start[t].v + (IF su = <<>> THEN 0 ELSE su[1].v))
      ]_vars

-----------------------------------------------------------------------------
(* C2 *)

\* C2: a /triage request whose session_id no /start has returned is answered
\* 404 'Invalid or expired session ID'; the step changes neither the session
\* store nor the conversations of the client, and no turn is ever in progress
\* for such an identifier.
C2_UnknownSessionRejected ==
    /\ [](\A t \in Threads :
            pc[t] \in TriagePcs => loc[t].session_id \in DOMAIN session_data)
    /\ [][(Answers("triage") /\ response'.request \notin DOMAIN session_data)
            => /\ response'.code = 404
               /\ response'.error = InvalidSession
               /\ UNCHANGED <<session_data, chats, requests, pc, loc>>
         ]_vars

\* an identifier that was never issued is refused while a session with a
\* changed score is in the store
C2_Witness ==
    /\ response.of = "triage"
    /\ response.code = 404
    /\ response.request # NoSessionId
    /\ \E s \in DOMAIN session_data : Stored(s) = JInt(40)

-----------------------------------------------------------------------------
(* C3 *)

-----------------------------------------------------------------------------
(* C4 *)

\* C4: a /start request whose case_id is not in PATIENT_CASES is answered 404
\* 'Case ID ... not found' (400 'No case ID provided' when the case_id is
\* missing or empty); the step opens no conversation and leaves the session
\* store as it was, and no /start is ever in progress for such a case_id.
C4_UnknownCaseRejected ==
    /\ [](\A t \in Threads :
            pc[t] \in StartPcs => loc[t].case_id \in DOMAIN PATIENT_CASES)
    /\ [][(Answers("start") /\ response'.request \notin DOMAIN PATIENT_CASES)
            => /\ response'.code = (IF response'.request = "" THEN 400 ELSE 404)
               /\ response'.error =
                      (IF response'.request = "" THEN NoCaseId ELSE CaseNotFound)
               /\ UNCHANGED <<session_data, chats, requests, pc, loc>>
         ]_vars

\* an unknown case is refused while a session is in the store and a turn runs
C4_Witness ==
    /\ response.of = "start"
    /\ response.code = 404
    /\ response.request = "case_unknown"
    /\ session_data # <<>>
    /\ \E t \in Threads : pc[t] \in TriagePcs

-----------------------------------------------------------------------------
(* C5 *)

\* C5: the step that completes a /start answers 200 with a session_id that no
\* session had, stores under it a session of the requested case with score 0,
\* leaves every other session as it was, and returns the initial_line of the
\* case and initial_score 0, whatever the instruction turn was answered.
C5_StartRegistersFreshSession ==
    [][\A t \in Threads :
         Leaves(t, "s_register")
         => LET r == response'
                case_data == PATIENT_CASES[loc[t].case_id]
            IN  /\ r.of = "start" /\ r.code = 200
                /\ r.session_id \notin DOMAIN session_data
                /\ DOMAIN session_data' = DOMAIN session_data \cup {r.session_id}
                /\ \A s \in DOMAIN session_data : session_data'[s] = session_data[s]
                /\ session_data'[r.session_id].current_score = JInt(0)
                /\ session_data'[r.session_id].case_id = loc[t].case_id
                /\ r.initial_score = 0
                /\ r.patient_text = case_data.initial_line
      ]_vars

\* a second session has just been registered with score 0, for another case
\* than the first, whose score a turn had set to 40
C5_Witness ==
    /\ response.of = "start"
    /\ response.code = 200
    /\ response.session_id = 2
    /\ Stored(1) = JInt(40)
    /\ Stored(2) = JInt(0)
    /\ session_data[1].case_id # session_data[2].case_id

-----------------------------------------------------------------------------
(* C6 *)

\* C6: the step that stores the score of a turn writes the session of that turn
\* only, and unless another turn of the same session ran meanwhile it stores
\* what parse_gemini_response gives for the reply and the score the session had
\* when the turn began: turns of other sessions, however interleaved, have no
\* effect on it.
C6_DistinctSessionsIndependent ==
    [][\A t \in Threads :
         Leaves(t, "t_store")
         => LET sid == loc[t].session_id
            IN  /\ \A s \in DOMAIN session_data \ {sid} :
                      session_data'[s] = session_data[s]
                /\ ~overlapped[t]
                     => StoredNext(sid) =
                          parse_gemini_response(loc[t].gemini, score_at_start[t]).new_score
      ]_vars

\* a turn has just stored 40 in its session while a turn of another session,
\* begun earlier, is still in progress
C6_Witness ==
    /\ response.of = "triage"
    /\ response.code = 200
    /\ Stored(response.request) = JInt(40)
    /\ \E t \in Threads :
          /\ pc[t] = "t_store"
          /\ loc[t].session_id # response.request
          /\ ~overlapped[t]

-----------------------------------------------------------------------------
(* C7 *)

\* C7: no two turns of one session are at the same time between the forwarding
\* of the user message and the write of the score.
\* The code takes no lock: two threads are there together.
C7_TurnsOfASessionSerialized ==
    \A t, u \in Threads :
        (t # u /\ pc[t] \in TriagePcs /\ pc[u] \in TriagePcs)
        => loc[t].session_id # loc[u].session_id

-----------------------------------------------------------------------------
(* C8 *)

\* C8: no step removes a session or changes a field of it other than
\* current_score, only the step that stores the score of a turn changes
\* current_score, and a session is registered with the case_id and the
\* conversation of the /start that creates it.
C8_SessionIdentityFixed ==
    [][/\ \A s \in DOMAIN session_data :
            /\ s \in DOMAIN session_data'
            /\ session_data'[s] =
                 [session_data[s] EXCEPT !.current_score = StoredNext(s)]
            /\ (\A t \in Threads : ~Leaves(t, "t_store"))
                  => session_data'[s] = session_data[s]
       /\ \A t \in Threads :
            Leaves(t, "s_register")
            => \E s \in DOMAIN session_data' \ DOMAIN session_data :
                  /\ session_data'[s].case_id = loc[t].case_id
                  /\ session_data'[s].chat = loc[t].chat
      ]_vars

\* a turn has just changed the score of the second of two sessions
C8_Witness ==
    /\ response.of = "triage"
    /\ response.code = 200
    /\ response.request = 2
    /\ Stored(2) # JInt(0)
    /\ session_data[2].chat # session_data[1].chat

-----------------------------------------------------------------------------
(* C9 *)

\* C9: the stored score of every session is an integer.
\* The code stores whatever score_update holds: "20" is stored as a string.
C9_StoredScoreIsInteger ==
    \A s \in DOMAIN session_data : IsInt(Stored(s))

-----------------------------------------------------------------------------
(* C10 *)

\* the text between the first start marker of a reply and the first end marker
\* after it, stripped: <<>> when the reply has no such pair, else <<the text>>
MarkedBody(raw) ==
    LET pairs == {p \in (1..Len(raw)) \X (1..Len(raw)) :
                     /\ p[1] < p[2]
                     /\ raw[p[1]] = StartMarker
                     /\ raw[p[2]] = EndMarker
                     /\ \A k \in 1..(p[1] - 1) : raw[k] # StartMarker
                     /\ \A k \in (p[1] + 1)..(p[2] - 1) : raw[k] # EndMarker}
    IN  IF pairs = {} THEN <<>>
        ELSE LET p == CHOOSE q \in pairs : TRUE
             IN  <<strip(SubSeq(raw, p[1] + 1, p[2] - 1))>>

\* whether a text is a JSON object
IsJsonObject(b) ==
    /\ Len(b) >= 2
    /\ b[1] = "{"
    /\ b[Len(b)] = "}"
    /\ JsonValid(b)

ParseError == "Error processing AI feedback (JSON format broken)."

\* C10: parsing a reply with a start marker, an end marker and a text between
\* them that is not empty and is no JSON object gives the narrative before the
\* start marker, the score unchanged and the parse-error feedback.
\* The code gives 'Awaiting key finding...' when the text is not in braces.
C10_InvalidPayloadReported ==
    \A i \in 1..Len(parsed) :
        LET body == MarkedBody(raw_text)
        IN  (body # <<>> /\ body[1] # <<>> /\ ~IsJsonObject(body[1]))
            => /\ parsed[i].result.patient_message = strip(split_first(raw_text))
               /\ parsed[i].result.new_score = parsed[i].current_score
               /\ parsed[i].result.clue_status = ParseError

-----------------------------------------------------------------------------
(* C11 *)

Markers == {StartMarker, EndMarker}

\* the result of the parse call of the harness, once it is made
Parsed == parsed[1].result

\* C11: for every raw reply, the narrative parse_gemini_response returns holds
\* neither the start marker nor the end marker (the payload the regex matches
\* lies after a start marker, so a narrative without markers holds no payload).
\* The code cuts at the start marker only: without one, the end marker and
\* what follows it stay in the narrative.
C11_NarrativeHasNoMarkers ==
    parsed # <<>>
    => \A k \in 1..Len(Parsed.patient_message) :
          Parsed.patient_message[k] \notin Markers

-----------------------------------------------------------------------------
(* C12 *)

\* a reply of the form narrative, start marker, JSON object, end marker: the
\* narrative before the start marker and the object, else <<>>
WellFormed(raw) ==
    LET n == Len(raw)
        starts == {i \in 1..n : raw[i] = StartMarker}
    IN  IF n >= 2 /\ Cardinality(starts) = 1 /\ raw[n] = EndMarker
           /\ \A k \in 1..(n - 1) : raw[k] # EndMarker
        THEN LET i == CHOOSE j \in starts : TRUE
                 body == strip(SubSeq(raw, i + 1, n - 1))
             IN  IF IsJsonObject(body)
                 THEN <<[narrative |-> SubSeq(raw, 1, i - 1), object |-> body]>>
                 ELSE <<>>
        ELSE <<>>

\* the value the members of a JSON object give a key: <<>> when no member has
\* the key, else <<the value of the last member that has it>>
Member(object, key) ==
    LET at == {k \in 1..Len(object) :
                  object[k] \in MemberTokens /\ MemberKey(object[k]) = key}
    IN  IF at = {} THEN <<>> ELSE <<MemberValue(object[SetMax(at)])>>

\* C12: parsing narrative + start marker + a JSON object with score_update d
\* and hot_clue_status s + end marker gives the trimmed narrative, d as the
\* score result and s as the feedback; 'Feedback received.' is the feedback
\* when the object has no hot_clue_status.
C12_WellFormedReplyParsed ==
    (parsed # <<>> /\ WellFormed(raw_text) # <<>>)
    => LET w == WellFormed(raw_text)[1]
           d == Member(w.object, "score_update")
           st == Member(w.object, "hot_clue_status")
       IN  d # <<>>
           => /\ Parsed.patient_message = strip(w.narrative)
              /\ Parsed.new_score = d[1]
              /\ Parsed.clue_status =
                    (IF st = <<>> THEN "Feedback received." ELSE st[1])

\* the reply t <S>{"score_update": 40, "hot_clue_status": ...}</S> has been
\* parsed against the score 0
C12_Witness ==
    /\ parsed # <<>>
    /\ raw_text = <<"t", StartMarker, "{", "su=40", ",", "st=x", "}", EndMarker>>
    /\ parsed[1].current_score = JInt(0)
    /\ Parsed.new_score = JInt(40)
    /\ Parsed.clue_status = "Found key symptom: Sudden onset."

-----------------------------------------------------------------------------
(* C13 *)

\* C13: parsing a reply that holds no marker gives the whole trimmed text as
\* narrative, the score it was called with, and 'Awaiting key finding...'.
C13_NoMarkersNoChange ==
    (parsed # <<>> /\ \A k \in 1..Len(raw_text) : raw_text[k] \notin Markers)
    => /\ Parsed.patient_message = strip(raw_text)
       /\ Parsed.new_score = parsed[1].current_score
       /\ Parsed.clue_status = "Awaiting key finding..."

\* a reply without markers, with blanks around its text and a JSON object in
\* it, has been parsed against the score 40
C13_Witness ==
    /\ parsed # <<>>
    /\ raw_text = <<"_", "t", "_", "{", "su=40", "}", "_">>
    /\ parsed[1].current_score = JInt(40)
    /\ Parsed.patient_message = <<"t", "_", "{", "su=40", "}">>

-----------------------------------------------------------------------------
(* C14 *)

\* the feedback strings of parse_gemini_response
FeedbackStrings ==
    {"Awaiting key finding...", "Feedback received.", ParseError,
     MemberValue("st=x")}

\* C14: a turn whose reply has text never fails, whatever the payload: the
\* parse step moves on to the store step without an error response, the store
\* step answers 200 with the narrative before the start marker and one of the
\* feedback strings, and when the reply gives no score_update it leaves the
\* score stored as the turn found it (no other turn of the session overlapping).
C14_MalformedPayloadDegrades ==
    [][\A t \in Threads :
         /\ (Leaves(t, "t_recv") /\ loc[t].gemini \notin {Raised, None})
              => /\ pc'[t] = "t_store"
                 /\ response' = NoResponse
         /\ Leaves(t, "t_store")
              => /\ response'.of = "triage"
                 /\ response'.code = 200
                 /\ response'.patient_text = strip(split_first(loc[t].gemini))
                 /\ response'.real_time_feedback \in FeedbackStrings
                 /\ (ScoreUpdateOf(loc[t].gemini) = <<>> /\ ~overlapped[t])
                      => /\ StoredNext(loc[t].session_id) = Stored(loc[t].session_id)
                         /\ StoredNext(loc[t].session_id) = score_at_start[t]
                         /\ response'.current_score = score_at_start[t]
      ]_vars

\* a turn whose payload json.loads rejects has been answered 200 with the
\* parse-error feedback, the session keeping the 40 an earlier turn stored
C14_Witness ==
    /\ response.of = "triage"
    /\ response.code = 200
    /\ response.real_time_feedback = ParseError
    /\ response.patient_text = <<"t">>
    /\ response.current_score = JInt(40)
    /\ Stored(response.request) = JInt(40)

-----------------------------------------------------------------------------
(* C15 *)

\* C15: with /start and /triage requests running at the same time, every
\* registration adds exactly one session, under an identifier no session had
\* and with score 0, and keeps every session the store held, also those that
\* other /start requests registered meanwhile; and a /triage is answered
\* 'Invalid or expired session ID' only for an identifier that is not in the
\* store, so a session that exists is found whatever the other threads do.
C15_ConcurrentInsertAndLookup ==
    [][/\ \A t \in Threads :
            Leaves(t, "s_register")
            => LET added == DOMAIN session_data' \ DOMAIN session_data
               IN  /\ Cardinality(added) = 1
                   /\ DOMAIN session_data \subseteq DOMAIN session_data'
                   /\ \A s \in added : StoredNext(s) = JInt(0)
                   /\ \A s \in DOMAIN session_data :
                         /\ session_data'[s] = session_data[s]
                         /\ \A n \in added :
                               session_data'[n].chat # session_data[s].chat
       /\ (Answers("triage") /\ response'.code = 404)
            => /\ response'.error = InvalidSession
               /\ response'.request \notin DOMAIN session_data
       /\ \A t \in Threads :
            (pc[t] = "idle" /\ pc'[t] = "t_recv")
            => loc'[t].chat = session_data[loc'[t].session_id].chat
      ]_vars

\* the second of two /start requests that ran at the same time has registered
\* its session after the first, while a /triage of the third thread is in
\* progress on the session that existed before
C15_Witness ==
    /\ response.of = "start"
    /\ response.code = 200
    /\ response.session_id = 3
    /\ DOMAIN session_data = {1, 2, 3}
    /\ Stored(2) = JInt(0)
    /\ Stored(3) = JInt(0)
    /\ session_data[3].chat < session_data[2].chat
    /\ \E t \in Threads :
          /\ pc[t] \in TriagePcs
          /\ loc[t].session_id = 1

-----------------------------------------------------------------------------
(* C16 *)

\* C16: a session identifier a /start returns is in the store when it is
\* returned, no step of any request, failed or not, takes an identifier out of
\* the store, a /triage whose identifier is in the store is never answered 404,
\* and a turn in progress keeps its session in the store: so no /triage with a
\* returned identifier is answered 'Invalid or expired session ID'.
C16_SessionNeverExpires ==
    /\ []((response.of = "start" /\ response.code = 200)
            => response.session_id \in DOMAIN session_data)
    /\ [][/\ DOMAIN session_data \subseteq DOMAIN session_data'
          /\ (Answers("triage") /\ response'.request \in DOMAIN session_data)
                => response'.code # 404
          /\ \A t \in Threads :
                (pc[t] \in TriagePcs /\ pc'[t] \in TriagePcs)
                => loc'[t].session_id \in DOMAIN session_data'
         ]_vars

\* the first session answers a turn with 200 after an earlier turn on it and
\* the registration of a second session
C16_Witness ==
    /\ response.of = "triage"
    /\ response.code = 200
    /\ response.request = 1
    /\ DOMAIN session_data = {1, 2}
    /\ chats[session_data[1].chat] = 3
    /\ Stored(1) = JInt(40)
    /\ requests = MaxRequests

-----------------------------------------------------------------------------
(* C17 *)

\* C17: the score a turn stores is computed from the score that is in the
\* store immediately before the write, also when another turn of the same
\* session has written between this turn's read and its write.
\* The code computes it from the score read before parsing and takes no lock:
\* a turn without score_update that read 0 writes 0 over the 40 another turn
\* stored meanwhile.
C17_NoLostUpdate ==
    [][\A t \in Threads :
         Leaves(t, "t_store")
         => StoredNext(loc[t].session_id) =
               parse_gemini_response(loc[t].gemini,
                                     Stored(loc[t].session_id)).new_score
      ]_vars

-----------------------------------------------------------------------------
(* C18 *)

\* the conversations that belong to no session and to no /start in progress
Orphans ==
    {c \in DOMAIN chats :
        /\ \A s \in DOMAIN session_data : session_data[s].chat # c
        /\ \A t \in Threads : loc[t].chat # c}

\* C18: a /start that is answered with an error registers nothing; the store
\* changes its keys only in the step that follows a completed instruction turn;
\* the conversation of every session has received its instruction and no
\* /start is still about to send it; and a session_id that is returned is in
\* the store.
C18_FailedStartRegistersNothing ==
    /\ [](/\ \A s \in DOMAIN session_data :
               /\ chats[session_data[s].chat] >= 1
               /\ \A t \in Threads :
                     pc[t] \in StartPcs => loc[t].chat # session_data[s].chat
          /\ (response.of = "start" /\ response.code # 200)
               => "session_id" \notin DOMAIN response
          /\ (response.of = "start" /\ response.code = 200)
               => session_data[response.session_id].case_id = response.request)
    /\ [][/\ (Answers("start") /\ response'.code # 200)
               => session_data' = session_data
          /\ (DOMAIN session_data' # DOMAIN session_data)
               => \E t \in Threads :
                     /\ Leaves(t, "s_register")
                     /\ chats[loc[t].chat] = 1
          /\ \A t \in Threads :
               (pc[t] = "s_send" /\ pc'[t] = "idle")
               => /\ response'.code = 500
                  /\ session_data' = session_data
         ]_vars

\* a /start for a case of the catalog has failed in its instruction turn: its
\* conversation has the one message and belongs to no session, while the store
\* holds the session of an earlier /start
C18_Witness ==
    /\ response.of = "start"
    /\ response.code = 500
    /\ response.request \in DOMAIN PATIENT_CASES
    /\ \E c \in Orphans : chats[c] = 1
    /\ DOMAIN session_data = {1}

=============================================================================
